---- MODULE Spec2Model ----
(***************************************************************************)
(* GenAI BI dashboard: the intent-classification -> secure-execution ->    *)
(* result-shaping pipeline of handle_get_insight, in the three versions    *)
(* the repository holds (src/app/api.py, src/main.py, src/test.py), and    *)
(* the Safety Gate SafeQuerySQLDataBaseTool._run.                          *)
(*                                                                         *)
(* Text is modelled as a sequence of one-character strings, so that        *)
(* strip(), upper(), replace(), startswith() and the "in" substring test   *)
(* are computed as Python computes them.                                   *)
(***************************************************************************)
EXTENDS Integers, Sequences, FiniteSets, TLC

VARIABLES
    variant,            \* which handle_get_insight runs: "api" | "main" | "test"
    pc,                 \* the handler's position
    served,             \* requests received so far
    question,           \* request.query
    intent,             \* intent_result.get("intent"), or how classification ended
    generated_sql,      \* the handler's local generated_sql
    data_tuples,        \* the rows the database returned
    column_names,       \* the column names of the result
    result_data,        \* the handler's local result_data
    summary,            \* the handler's local summary
    bullets,            \* the handler's local bullets
    axis_titles,        \* the handler's local axis_titles
    response,           \* what the handler returned
    calls,              \* the external calls, cache hits and cache writes of this request
    executed,           \* the model-written texts handed to the database, in order
    authorized,         \* the texts the Safety Gate has authorized in this request
    failures,           \* the stages that failed in this request
    agentSteps,         \* tool steps the agent has taken in this request
    DESCRIPTIVE_CACHE,  \* module-level dict of api.py / main.py / test.py
    QUERY_CACHE,        \* module-level dict of test.py
    answered,           \* history: the first request's question -> its success response,
                        \* kept while the second request is served
    storedUnder,        \* history: <<cache, question>> -> the intent its entry was stored under
    gq,                 \* Safety Gate harness: the candidate query handed to _run
    gphase,             \* Safety Gate harness: "input" | "chains" | "test"
    gres,               \* Safety Gate harness: what _run decided and the database did
    gdb,                \* Safety Gate harness: the texts _run handed to db.run
    fcall,              \* helper harness: the helper function called and its arguments
    fret,               \* helper harness: <<>> while the call runs, then <<result>>
    threads             \* concurrent requests: thread -> where its handler call stands

gateVars == <<gq, gphase, gres, gdb>>

utilVars == <<fcall, fret>>

locals == <<intent, generated_sql, data_tuples, column_names, result_data, summary,
            bullets, axis_titles>>

logs == <<calls, executed, authorized, failures, agentSteps>>

caches == <<DESCRIPTIVE_CACHE, QUERY_CACHE, storedUnder>>

handlerVars == <<variant, pc, served, question, intent, generated_sql, data_tuples,
                 column_names, result_data, summary, bullets, axis_titles, response,
                 calls, executed, authorized, failures, agentSteps, DESCRIPTIVE_CACHE,
                 QUERY_CACHE, answered, storedUnder>>

vars == <<variant, pc, served, question, intent, generated_sql, data_tuples,
          column_names, result_data, summary, bullets, axis_titles, response, calls,
          executed, authorized, failures, agentSteps, DESCRIPTIVE_CACHE, QUERY_CACHE,
          answered, storedUnder, gq, gphase, gres, gdb, fcall, fret, threads>>

----------------------------------------------------------------------------
(* Characters and Python's str methods                                     *)

LowerLetters == <<"a","b","c","d","e","f","g","h","i","j","k","l","m",
                  "n","o","p","q","r","s","t","u","v","w","x","y","z">>

UpperLetters == <<"A","B","C","D","E","F","G","H","I","J","K","L","M",
                  "N","O","P","Q","R","S","T","U","V","W","X","Y","Z">>

Digits == {"0","1","2","3","4","5","6","7","8","9"}

Range(s) == {s[i] : i \in DOMAIN s}

\* str.strip() with no argument removes these from both ends
Whitespace == {" ", "\t", "\n", "\r", "\f"}

UpperChar(c) ==
    IF \E i \in DOMAIN LowerLetters : LowerLetters[i] = c
    THEN UpperLetters[CHOOSE i \in DOMAIN LowerLetters : LowerLetters[i] = c]
    ELSE c

LowerChar(c) ==
    IF \E i \in DOMAIN UpperLetters : UpperLetters[i] = c
    THEN LowerLetters[CHOOSE i \in DOMAIN UpperLetters : UpperLetters[i] = c]
    ELSE c

\* str.upper()
Upper(s) == [i \in DOMAIN s |-> UpperChar(s[i])]

\* str.lower()
Lower(s) == [i \in DOMAIN s |-> LowerChar(s[i])]

\* str.strip()
Strip(s) ==
    LET keep == {i \in DOMAIN s : s[i] \notin Whitespace}
    IN  IF keep = {} THEN <<>>
        ELSE LET lo == CHOOSE i \in keep : \A j \in keep : i <= j
                 hi == CHOOSE i \in keep : \A j \in keep : j <= i
             IN  SubSeq(s, lo, hi)

\* str.startswith(p)
StartsWith(s, p) == Len(p) <= Len(s) /\ SubSeq(s, 1, Len(p)) = p

\* p in s
Contains(s, p) ==
    \E i \in 1..(Len(s) - Len(p) + 1) : SubSeq(s, i, i + Len(p) - 1) = p

\* str.replace(old, new): the leftmost non-overlapping occurrences are replaced
RECURSIVE Replace(_, _, _)
Replace(s, old, new) ==
    IF Len(s) = 0 THEN <<>>
    ELSE IF StartsWith(s, old)
         THEN new \o Replace(SubSeq(s, Len(old) + 1, Len(s)), old, new)
         ELSE <<Head(s)>> \o Replace(Tail(s), old, new)

\* str.replace(old, "")
Remove(s, old) == Replace(s, old, <<>>)

\* the index at which p first occurs in s, 0 when it does not
Find(s, p) ==
    LET at == {i \in 1..(Len(s) - Len(p) + 1) : SubSeq(s, i, i + Len(p) - 1) = p}
    IN  IF at = {} THEN 0 ELSE CHOOSE i \in at : \A j \in at : i <= j

----------------------------------------------------------------------------
(* Words                                                                   *)

SP == <<" ">>
\* the backquote character of the markdown fence; it is written "BQ" here
\* because the TLA+ tools read a backquote in the module text as markup
BQ == "BQ"
Fence == <<BQ, BQ, BQ>>
FenceSqlite == <<BQ, BQ, BQ, "s","q","l","i","t","e">>

KeywordChars ==
    ("DROP"     :> <<"D","R","O","P">>) @@
    ("DELETE"   :> <<"D","E","L","E","T","E">>) @@
    ("UPDATE"   :> <<"U","P","D","A","T","E">>) @@
    ("INSERT"   :> <<"I","N","S","E","R","T">>) @@
    ("GRANT"    :> <<"G","R","A","N","T">>) @@
    ("REVOKE"   :> <<"R","E","V","O","K","E">>) @@
    ("ALTER"    :> <<"A","L","T","E","R">>) @@
    ("TRUNCATE" :> <<"T","R","U","N","C","A","T","E">>) @@
    ("CREATE"   :> <<"C","R","E","A","T","E">>) @@
    ("ADD"      :> <<"A","D","D">>)

W_updated_at == <<"u","p","d","a","t","e","d","_","a","t">>
W_select == <<"s","e","l","e","c","t">>

----------------------------------------------------------------------------
(* The Safety Gate: SafeQuerySQLDataBaseTool._run                          *)

\* a plausible bug: ADD is put on the list
FORBIDDEN_KEYWORDS_WithAdd ==
    <<"ADD", "DROP", "DELETE", "UPDATE", "INSERT", "GRANT", "REVOKE", "ALTER", "TRUNCATE",
      "CREATE">>

FORBIDDEN_KEYWORDS ==
    <<"DROP", "DELETE", "UPDATE", "INSERT", "GRANT", "REVOKE", "ALTER", "TRUNCATE", "CREATE">>

\* a plausible bug: the keyword is looked for as a plain substring
KeywordHitSubstring(text, keyword) == Contains(text, KeywordChars[keyword])

\* f" {keyword} " in f" {clean_query} " or clean_query.startswith(keyword + " ")
KeywordHit(text, keyword) ==
    \/ Contains(SP \o text \o SP, SP \o KeywordChars[keyword] \o SP)
    \/ StartsWith(text, KeywordChars[keyword] \o SP)

\* the loop keeps going and the last keyword that hits is the one reported
LastHit(text) ==
    LET hits == {i \in DOMAIN FORBIDDEN_KEYWORDS : KeywordHit(text, FORBIDDEN_KEYWORDS[i])}
    IN  IF hits = {} THEN 0 ELSE CHOOSE i \in hits : \A j \in hits : j <= i

\* the for loop over FORBIDDEN_KEYWORDS returns at the first keyword that hits:
\* its index in the list, 0 when the loop ends without a hit
FirstHit(text) ==
    LET hits == {i \in DOMAIN FORBIDDEN_KEYWORDS : KeywordHit(text, FORBIDDEN_KEYWORDS[i])}
    IN  IF hits = {} THEN 0 ELSE CHOOSE i \in hits : \A j \in hits : i <= j

\* a plausible bug: the rejection does not say which keyword was found
BlockedMsgNoKeyword(keyword) == <<"Error: The query was blocked.">>

BlockedMsg(keyword) ==
    <<"Error: The query was blocked because it contained the forbidden keyword '",
      keyword, "'.">>

\* what _run decides before any database call: blocked with the keyword it
\* names, or the text it hands to self.db.run
GateDecision(inspected, forwarded) ==
    LET h == FirstHit(inspected)
    IN  IF h # 0
        THEN [blocked |-> TRUE, keyword |-> FORBIDDEN_KEYWORDS[h], run |-> <<>>]
        ELSE [blocked |-> FALSE, keyword |-> "", run |-> <<forwarded>>]

\* src/app/chains.py and src/main.py: clean_query = query.strip().upper();
\* the database is given the query as received
SafeRun(query) == GateDecision(Upper(Strip(query)), query)

\* src/test.py: the markdown fences are removed first, and the database is
\* given the cleaned text
CleanTest(query) == Strip(Remove(Remove(Strip(query), FenceSqlite), Fence))

SafeRunTest(query) == GateDecision(Upper(CleanTest(query)), CleanTest(query))

----------------------------------------------------------------------------
(* Query text: cleaning, post-processing, table inference                  *)

W_from == <<"f","r","o","m">>
W_orders == <<"o","r","d","e","r","s">>
W_total_amount == <<"t","o","t","a","l","_","a","m","o","u","n","t">>
W_quantity == <<"q","u","a","n","t","i","t","y">>
W_month == <<"m","o","n","t","h">>
W_order_by == <<"o","r","d","e","r"," ","b","y">>
W_limit_5 == <<"l","i","m","i","t"," ","5">>
W_desc == <<"d","e","s","c">>
W_asc == <<"a","s","c">>
NA == <<"N","/","A">>
BLOCKED == <<"B","L","O","C","K","E","D">>

\* src/app/api.py: strip(), then the sqlite fence, the bare fence and the sqlite
\* fence again are replaced by "", then strip()
CleanSqlApi(sql_with_markdown) ==
    Strip(Remove(Remove(Remove(Strip(sql_with_markdown), FenceSqlite), Fence), FenceSqlite))

\* src/main.py: postprocess_sql_for_time_series
postprocess_sql_for_time_series(sql) ==
    LET unlimited == Remove(Remove(sql, Upper(W_limit_5)), W_limit_5)
    IN  IF Contains(Lower(unlimited), W_order_by) /\ Contains(Lower(unlimited), W_month)
        THEN Replace(Replace(unlimited, Upper(W_desc), Upper(W_asc)), W_desc, W_asc)
        ELSE unlimited

\* the generated_sql each version of the handler derives from the model's text
CleanSql(v, sql_with_markdown) ==
    IF v = "api" THEN CleanSqlApi(sql_with_markdown)
    ELSE IF v = "main" THEN postprocess_sql_for_time_series(CleanSqlApi(sql_with_markdown))
    ELSE CleanTest(sql_with_markdown)

\* str.split() with no argument: the whitespace-separated words; its first one
\* (<<>> when there is none, where [0] raises IndexError)
FirstWord(s) ==
    LET t == Strip(s)
        ws == {i \in DOMAIN t : t[i] \in Whitespace}
    IN  IF ws = {} THEN t
        ELSE SubSeq(t, 1, (CHOOSE i \in ws : \A j \in ws : i <= j) - 1)

\* generated_sql.lower().split("from")[1]: the text between the first "from"
\* and the next one (or the end)
AfterFirstFrom(sql) ==
    LET low == Lower(sql)
        rest == SubSeq(low, Find(low, W_from) + Len(W_from), Len(low))
        nxt == Find(rest, W_from)
    IN  IF nxt = 0 THEN rest ELSE SubSeq(rest, 1, nxt - 1)

\* str.strip(",;")
StripPunct(s) ==
    LET keep == {i \in DOMAIN s : s[i] \notin {",", ";"}}
    IN  IF keep = {} THEN <<>>
        ELSE SubSeq(s, CHOOSE i \in keep : \A j \in keep : i <= j,
                       CHOOSE i \in keep : \A j \in keep : j <= i)

\* "from" in generated_sql.lower()
MentionsFrom(sql) == Contains(Lower(sql), W_from)

\* .split("from")[1].split()[0] raises IndexError when no word follows "from"
TableInferenceRaises(sql) == MentionsFrom(sql) /\ FirstWord(AfterFirstFrom(sql)) = <<>>

\* the table the formatter infers; <<>> stands for None
InferTable(sql) ==
    IF MentionsFrom(sql) THEN StripPunct(FirstWord(AfterFirstFrom(sql))) ELSE <<>>

----------------------------------------------------------------------------
(* Result values and the currency formatter                                *)

\* the write replaces the dict by one holding the new entry alone
StoreEntryEvicting(cache, q, entry) == q :> entry

\* CACHE[question] = entry: one dict store
StoreEntry(cache, q, entry) == (q :> entry) @@ cache

\* a cell of a result row: an int, a float (v counts tenths), the float inf
\* (SQLite hands it out for a REAL beyond the double range) or a str (s)
IntVal(n) == [t |-> "int", v |-> n, s |-> <<>>]
FloatVal(tenths) == [t |-> "float", v |-> tenths, s |-> <<>>]
InfVal == [t |-> "inf", v |-> 0, s |-> <<>>]
StrVal(chars) == [t |-> "str", v |-> 0, s |-> chars]

CURRENCY_KEYWORDS ==
    << <<"a","m","o","u","n","t">>, <<"p","r","i","c","e">>, <<"c","o","s","t">>,
       <<"r","e","v","e","n","u","e">>, <<"t","o","t","a","l">>, <<"s","p","e","n","t">>,
       <<"s","a","l","e","s">>, <<"i","n","c","o","m","e">>,
       <<"p","a","y","m","e","n","t">>, <<"c","h","a","r","g","e">>, <<"f","e","e">>,
       <<"b","a","l","a","n","c","e">> >>

\* the keyword list written inside is_currency_column_smart
SmartKeywords ==
    << <<"a","m","o","u","n","t">>, <<"p","r","i","c","e">>, <<"c","o","s","t">>,
       <<"r","e","v","e","n","u","e">>, <<"p","a","y","m","e","n","t">>,
       <<"c","h","a","r","g","e">>, <<"f","e","e">>, <<"b","a","l","a","n","c","e">> >>

NumericTypes ==
    { <<"r","e","a","l">>, <<"n","u","m","e","r","i","c">>, <<"d","e","c","i","m","a","l">>,
      <<"m","o","n","e","y">>, <<"f","l","o","a","t">> }

CURRENCY_SYMBOL == <<"$">>

W_payment_method == <<"p","a","y","m","e","n","t","_","m","e","t","h","o","d">>

\* the schema the registry read from the database at start-up: one table
DB_SCHEMA ==
    W_orders :>
        << [name |-> W_total_amount, type |-> <<"R","E","A","L">>],
           [name |-> W_quantity, type |-> <<"I","N","T","E","G","E","R">>],
           [name |-> W_payment_method, type |-> <<"T","E","X","T">>] >>

\* get_column_type: the declared type, lower-cased; "" when the table or the
\* column is not in the schema
get_column_type(table, column) ==
    LET cols == IF table \in DOMAIN DB_SCHEMA THEN DB_SCHEMA[table] ELSE <<>>
        at == {i \in DOMAIN cols : Lower(cols[i].name) = Lower(column)}
    IN  IF at = {} THEN <<>>
        ELSE Lower(cols[CHOOSE i \in at : \A j \in at : i <= j].type)

\* the name-only logic applied whether or not the table is known
is_currency_column_by_name(col_name, table) ==
    \E i \in DOMAIN CURRENCY_KEYWORDS : Contains(Lower(col_name), CURRENCY_KEYWORDS[i])

is_currency_column_smart(col_name, table) ==
    IF table # <<>>
    THEN /\ get_column_type(table, col_name) \in NumericTypes
         /\ \E i \in DOMAIN SmartKeywords : Contains(Lower(col_name), SmartKeywords[i])
    ELSE \E i \in DOMAIN CURRENCY_KEYWORDS : Contains(Lower(col_name), CURRENCY_KEYWORDS[i])

DigitChars == <<"0","1","2","3","4","5","6","7","8","9">>

RECURSIVE Decimal(_)
Decimal(n) ==
    IF n < 10 THEN <<DigitChars[n + 1]>>
    ELSE Decimal(n \div 10) \o <<DigitChars[(n % 10) + 1]>>

ThreeDigits(n) ==
    <<DigitChars[(n \div 100) + 1], DigitChars[((n \div 10) % 10) + 1],
      DigitChars[(n % 10) + 1]>>

\* format(n, ","): the digits in groups of three
RECURSIVE Grouped(_)
Grouped(n) ==
    IF n < 1000 THEN Decimal(n)
    ELSE Grouped(n \div 1000) \o <<",">> \o ThreeDigits(n % 1000)

\* round(float(val)): to the nearest whole number, a tie to the even one
RoundHalfEven(val) ==
    IF val.t = "int" THEN val.v
    ELSE LET q == val.v \div 10
             r == val.v % 10
         IN  IF r < 5 THEN q
             ELSE IF r > 5 THEN q + 1
             ELSE IF q % 2 = 0 THEN q ELSE q + 1

\* format_currency: f"{CURRENCY_SYMBOL}{round(float(val)):,}"; a value float()
\* rejects comes back as it is
format_currency(val) ==
    IF val.t \in {"str", "inf"} THEN val
    ELSE LET n == RoundHalfEven(val)
         IN  StrVal(CURRENCY_SYMBOL \o
                    (IF n < 0 THEN <<"-">> \o Grouped(0 - n) ELSE Grouped(n)))

\* isinstance(v, (int, float))
IsNumber(val) == val.t \in {"int", "float", "inf"}

\* every number in any column is handed to format_currency
FormatCellAnyColumn(k, v, sql) == IF IsNumber(v) THEN format_currency(v) ELSE v

\* one cell of the formatting loop of handle_get_insight
FormatCell(k, v, sql) ==
    IF is_currency_column_smart(k, InferTable(sql)) /\ IsNumber(v)
    THEN format_currency(v)
    ELSE v

\* [dict(zip(column_names, row)) for row in data_tuples]
ZipRows(cols, rows) ==
    [i \in DOMAIN rows |->
        [k \in {cols[j] : j \in 1..(IF Len(cols) < Len(rows[i]) THEN Len(cols)
                                    ELSE Len(rows[i]))} |->
            rows[i][CHOOSE j \in DOMAIN cols :
                        /\ cols[j] = k
                        /\ j <= Len(rows[i])
                        /\ \A m \in DOMAIN cols :
                              (cols[m] = k /\ m <= Len(rows[i])) => m <= j]]]

\* the formatting loop: every cell of every row
FormatRows(data, sql) ==
    [i \in DOMAIN data |-> [k \in DOMAIN data[i] |-> FormatCell(k, data[i][k], sql)]]

----------------------------------------------------------------------------
(* handle_get_insight: texts, responses and the inputs of the environment  *)

\* requests one process receives
MaxRequests == 2

\* tool steps the agent may take before AgentExecutor stops it
MaxAgentSteps == 1

Variants == {"api", "main", "test"}

\* Python's None, where a text may stand; the empty text is <<"">>
Null == <<>>
EmptyText == <<"">>

C_kpi == <<"k","p","i">>
C_bar == <<"b","a","r">>
C_pie == <<"p","i","e">>
C_table == <<"t","a","b","l","e">>
C_none == <<"n","o","n","e">>

BlankAxis == [x |-> <<>>, y |-> <<>>]

BlockedNarrative ==
    <<"Error: This request has been blocked as it was identified as potentially destructive.">>

NoResults == <<"The query executed successfully but returned no results.">>

SchemaNarrative == <<"Please use the Data Exploration feature to view the database schema.">>

\* f"An error occurred while processing your request: {str(e)}"
ErrMsg(e) == <<"An error occurred while processing your request: ">> \o e

\* the texts of the exceptions the collaborators raise
LlmError == <<"LLMERR">>
DbError == <<"DBERR">>
LiteralEvalError == <<"invalid syntax">>
IndexError == <<"list index out of range">>
BudgetText == <<"Agent stopped due to iteration limit or time limit.">>

\* a plausible bug: the except branch keeps the exception's text out of the
\* response
FailureResponseGeneric(q, sql, e) ==
    [query |-> q, sql |-> sql, data |-> <<>>, narrative |-> ErrMsg(<<>>),
     chartType |-> C_none, error |-> ErrMsg(<<>>)]

\* the except branch hands out the rows gathered before the exception
FailureResponseWithData(q, sql, e) ==
    [query |-> q, sql |-> sql, data |-> result_data, narrative |-> ErrMsg(e),
     chartType |-> C_none, error |-> ErrMsg(e)]

\* the except branch of handle_get_insight
FailureResponse(q, sql, e) ==
    [query |-> q, sql |-> sql, data |-> <<>>, narrative |-> ErrMsg(e),
     chartType |-> C_none, error |-> ErrMsg(e)]

\* the destructive_request branch
\* the block message is put in the narrative only
BlockedResponseNoError(q) ==
    [query |-> q, sql |-> BLOCKED, data |-> <<>>, narrative |-> BlockedNarrative,
     chartType |-> C_none, error |-> Null]

BlockedResponse(q) ==
    [query |-> q, sql |-> BLOCKED, data |-> <<>>, narrative |-> BlockedNarrative,
     chartType |-> C_none, error |-> BlockedNarrative]

\* the return at the end of handle_get_insight
SuccessResponse(q, sql, data, sum, bul, chart, axes) ==
    [query |-> q, sql |-> sql, data |-> data, narrative |-> sum, bullets |-> bul,
     chartType |-> chart, axisTitles |-> axes, error |-> Null]

\* src/test.py: the response built from a DESCRIPTIVE_CACHE entry
CachedDescriptiveResponse(q, cached) ==
    [query |-> q, sql |-> NA, data |-> <<>>, narrative |-> cached.narrative,
     bullets |-> cached.bullets, chartType |-> C_none, axisTitles |-> BlankAxis,
     error |-> Null, schemaStructured |-> cached.schema_structured,
     agentAnswer |-> cached.agent_answer]

\* src/test.py: the response to a descriptive question the agent answered
AgentResponse(q, agent_answer) ==
    [query |-> q, sql |-> NA, data |-> <<>>, narrative |-> agent_answer,
     bullets |-> <<>>, chartType |-> C_none, axisTitles |-> BlankAxis,
     schemaStructured |-> Null, agentAnswer |-> agent_answer,
     schemaSampleData |-> Null, error |-> Null]

\* src/test.py: the response to a generic schema question
SchemaResponse(q) ==
    [query |-> q, sql |-> NA, data |-> <<>>, narrative |-> SchemaNarrative,
     bullets |-> <<>>, chartType |-> C_none, axisTitles |-> BlankAxis, error |-> Null]

NoResponse ==
    [query |-> <<>>, sql |-> <<>>, data |-> <<>>, narrative |-> <<>>,
     chartType |-> <<>>, error |-> <<>>]

Q_sales == <<"s","a","l","e","s">>
Q_schema == <<"s","h","o","w"," ","s","c","h","e","m","a">>

Questions == {Q_sales, Q_schema}

generic_schema_keywords ==
    << <<"s","c","h","e","m","a">>, <<"a","l","l"," ","t","a","b","l","e","s">>,
       <<"d","a","t","a","b","a","s","e"," ","s","t","r","u","c","t","u","r","e">>,
       <<"s","h","o","w"," ","s","c","h","e","m","a">>,
       <<"s","h","o","w"," ","t","a","b","l","e","s">>,
       <<"l","i","s","t"," ","t","a","b","l","e","s">>,
       <<"d","a","t","a","b","a","s","e"," ","d","i","a","g","r","a","m">> >>

\* any(word in question.lower() for word in generic_schema_keywords)
IsGenericSchemaQuestion(q) ==
    \E i \in DOMAIN generic_schema_keywords : Contains(Lower(q), generic_schema_keywords[i])

\* what intent_result.get("intent") can be: a label of the three, a label
\* outside them, or None ("NONE") when the parsed object has no "intent"
IntentValues ==
    {"data_query", "descriptive_question", "destructive_request", "other", "NONE"}

SqlSelect ==
    <<"s","e","l","e","c","t"," ","*"," ","f","r","o","m"," ","o","r","d","e","r","s">>
SqlDrop == <<"D","R","O","P"," ","T","A","B","L","E"," ","o","r","d","e","r","s">>
SqlEndsFrom == <<"s","e","l","e","c","t"," ","1"," ","a","s"," ","x","f","r","o","m">>

\* the texts the Query Synthesizer may return
SynthOutputs ==
    {SqlSelect, FenceSqlite \o <<"\n">> \o SqlSelect \o <<"\n">> \o Fence, SqlDrop,
     SqlEndsFrom}

\* the queries the agent may hand to its query tool
AgentQueries == {SqlSelect, SqlDrop}

\* the result set the database returns when it returns rows
ResultColumns == <<W_total_amount, W_quantity>>
ResultRows == << <<FloatVal(12345678), IntVal(3)>> >>

\* the texts the chart recommendation model may answer with
ChartReplies == {<<" ","K","P","I","\n">>, <<"s","c","a","t","t","e","r","p","l","o","t">>}

LlmAxis == [x |-> <<"M","o","n","t","h">>, y |-> <<"S","a","l","e","s">>]

EmptyCache == [q \in {} |-> NoResponse]

HandlerIdle ==
    /\ variant = "none"
    /\ pc = "off"
    /\ served = 0
    /\ question = <<>>
    /\ intent = "unset"
    /\ generated_sql = NA
    /\ data_tuples = <<>>
    /\ column_names = <<>>
    /\ result_data = <<>>
    /\ summary = EmptyText
    /\ bullets = <<>>
    /\ axis_titles = BlankAxis
    /\ response = NoResponse
    /\ calls = {}
    /\ executed = <<>>
    /\ authorized = {}
    /\ failures = {}
    /\ agentSteps = 0
    /\ DESCRIPTIVE_CACHE = EmptyCache
    /\ QUERY_CACHE = EmptyCache
    /\ answered = EmptyCache
    /\ storedUnder = EmptyCache

----------------------------------------------------------------------------
(* Safety Gate harness: _run applied to a bounded set of candidate queries *)

GateDelims == {<<>>, <<" ">>, <<"\t">>, <<"\n">>, <<";">>, <<"(">>, <<")">>}

GateWords ==
    {KeywordChars[k] : k \in DOMAIN KeywordChars}
        \cup {Lower(KeywordChars["DROP"]), Lower(KeywordChars["ADD"]),
              <<"U","p","d","a","t","e">>, W_updated_at,
              <<"c","r","e","a","t","e","d","_","b","y">>,
              <<"d","r","o","p","o","f","f">>, W_select}

\* candidates holding two statements, each opening with a deny-listed keyword
GatePairs ==
    {KeywordChars[FORBIDDEN_KEYWORDS[a]] \o <<" ","x"," ",";"," ">>
         \o KeywordChars[FORBIDDEN_KEYWORDS[b]] \o <<" ","y">> :
        a \in DOMAIN FORBIDDEN_KEYWORDS, b \in DOMAIN FORBIDDEN_KEYWORDS}

GateInputs ==
    {pre \o d1 \o w \o d2 \o post :
        pre \in {<<>>, <<"a">>}, d1 \in GateDelims \cup {Fence},
        w \in GateWords, d2 \in GateDelims, post \in {<<>>, <<"b">>}}
    \cup GatePairs

\* self.db.run(query): the database answers with rows or raises
GateDbOutcomes == {"rows", "raised"}

NoGateResult == [blocked |-> FALSE, keyword |-> "", out |-> "none"]

\* no helper call is under way
NoCall == [fn |-> "none", args |-> <<>>]

UtilIdle ==
    /\ fcall = NoCall
    /\ fret = <<>>
    /\ threads = <<>>

GateIdle ==
    /\ gq = <<>>
    /\ gphase = "off"
    /\ gres = NoGateResult
    /\ gdb = <<>>

GateInit ==
    /\ gq \in GateInputs
    /\ gphase = "input"
    /\ gres = NoGateResult
    /\ gdb = <<>>
    /\ HandlerIdle
    /\ UtilIdle

\* SafeQuerySQLDataBaseTool._run of src/app/chains.py (and src/main.py)
GateRunChains ==
    /\ gphase = "input"
    /\ gphase' = "chains"
    /\ gdb' = SafeRun(gq).run
    /\ \E out \in (IF SafeRun(gq).blocked THEN {"blocked"} ELSE GateDbOutcomes) :
          gres' = [blocked |-> SafeRun(gq).blocked, keyword |-> SafeRun(gq).keyword,
                   out |-> out]
    /\ UNCHANGED <<gq, handlerVars, utilVars, threads>>

\* SafeQuerySQLDataBaseTool._run of src/test.py
GateRunTest ==
    /\ gphase = "input"
    /\ gphase' = "test"
    /\ gdb' = SafeRunTest(gq).run
    /\ \E out \in (IF SafeRunTest(gq).blocked THEN {"blocked"} ELSE GateDbOutcomes) :
          gres' = [blocked |-> SafeRunTest(gq).blocked,
                   keyword |-> SafeRunTest(gq).keyword, out |-> out]
    /\ UNCHANGED <<gq, handlerVars, utilVars, threads>>

GateNext == GateRunChains \/ GateRunTest

GateSpec == GateInit /\ [][GateNext]_vars

----------------------------------------------------------------------------
(* handle_get_insight, step by step                                        *)

Init ==
    /\ variant \in Variants
    /\ pc = "idle"
    /\ served = 0
    /\ question = <<>>
    /\ intent = "unset"
    /\ generated_sql = NA
    /\ data_tuples = <<>>
    /\ column_names = <<>>
    /\ result_data = <<>>
    /\ summary = EmptyText
    /\ bullets = <<>>
    /\ axis_titles = BlankAxis
    /\ response = NoResponse
    /\ calls = {}
    /\ executed = <<>>
    /\ authorized = {}
    /\ failures = {}
    /\ agentSteps = 0
    /\ DESCRIPTIVE_CACHE = EmptyCache
    /\ QUERY_CACHE = EmptyCache
    /\ answered = EmptyCache
    /\ storedUnder = EmptyCache
    /\ GateIdle
    /\ UtilIdle

\* an exception raised inside the try block: the except branch builds the
\* failure response from the locals as they stand
Raise(stage, e) ==
    /\ response' = FailureResponse(question, generated_sql, e)
    /\ failures' = failures \cup {stage}
    /\ pc' = "done"

\* a request arrives; the handler's locals start from their initial values
Receive ==
    /\ pc \in {"idle", "done", "crashed"}
    /\ served < MaxRequests
    /\ served' = served + 1
    /\ \E q \in Questions : question' = q
    /\ answered' =
          IF served = 1 /\ pc = "done" /\ response.error = Null
          THEN (question :> response) @@ answered
          ELSE IF served = 2 THEN EmptyCache ELSE answered
    /\ pc' = "classify"
    /\ intent' = "unset"
    /\ generated_sql' = NA
    /\ data_tuples' = <<>>
    /\ column_names' = <<>>
    /\ result_data' = <<>>
    /\ summary' = EmptyText
    /\ bullets' = <<>>
    /\ axis_titles' = BlankAxis
    /\ response' = NoResponse
    /\ calls' = {}
    /\ executed' = <<>>
    /\ authorized' = {}
    /\ failures' = {}
    /\ agentSteps' = 0
    /\ UNCHANGED <<variant, caches, gateVars, utilVars, threads>>

\* classification_chain.invoke(...) returns and .get("intent") is read
Classify ==
    /\ pc = "classify"
    /\ \E label \in IntentValues : intent' = label
    /\ calls' = calls \cup {"classify"}
    /\ pc' = "route"
    /\ UNCHANGED <<variant, served, question, generated_sql, data_tuples, column_names,
                   result_data, summary, bullets, axis_titles, response, executed,
                   authorized, failures, agentSteps, caches, answered, gateVars, utilVars, threads>>

\* classification_chain.invoke(...) raises (the model call fails or its output
\* does not parse): inside the try block in api.py and main.py, before it in
\* test.py
ClassifyRaises ==
    /\ pc = "classify"
    /\ intent' = "raised"
    /\ calls' = calls \cup {"classify"}
    /\ failures' = failures \cup {"classification"}
    /\ IF variant = "test"
       THEN pc' = "crashed" /\ response' = response
       ELSE pc' = "done" /\ response' = FailureResponse(question, generated_sql, LlmError)
    /\ UNCHANGED <<variant, served, question, generated_sql, data_tuples, column_names,
                   result_data, summary, bullets, axis_titles, executed, authorized,
                   agentSteps, caches, answered, gateVars, utilVars, threads>>

\* src/test.py: the two cache lookups that precede the try block
TestCacheHit ==
    /\ variant = "test"
    /\ \/ intent = "data_query" /\ question \in DOMAIN QUERY_CACHE
       \/ intent = "descriptive_question" /\ question \in DOMAIN DESCRIPTIVE_CACHE

ReturnCached ==
    /\ pc = "route"
    /\ TestCacheHit
    /\ response' =
          IF intent = "data_query"
          THEN QUERY_CACHE[question]
          ELSE CachedDescriptiveResponse(question, DESCRIPTIVE_CACHE[question])
    /\ calls' = calls \cup {"cache_hit"}
    /\ pc' = "done"
    /\ UNCHANGED <<variant, served, question, locals, executed, authorized, failures,
                   agentSteps, caches, answered, gateVars, utilVars, threads>>

\* if intent == "destructive_request": return the blocked response
ReturnBlocked ==
    /\ pc = "route"
    /\ intent = "destructive_request"
    /\ response' = BlockedResponse(question)
    /\ pc' = "done"
    /\ UNCHANGED <<variant, served, question, locals, logs, caches, answered, gateVars,
                   utilVars, threads>>

\* if intent == "data_query": generate_query_chain.invoke(...) returns and the
\* text is cleaned
Synthesize ==
    /\ pc = "route"
    /\ intent = "data_query"
    /\ ~TestCacheHit
    /\ \E sql_with_markdown \in SynthOutputs :
          generated_sql' = CleanSql(variant, sql_with_markdown)
    /\ calls' = calls \cup {"synthesize"}
    /\ pc' = "execute"
    /\ UNCHANGED <<variant, served, question, intent, data_tuples, column_names,
                   result_data, summary, bullets, axis_titles, response, executed,
                   authorized, failures, agentSteps, caches, answered, gateVars, utilVars, threads>>

SynthesizeRaises ==
    /\ pc = "route"
    /\ intent = "data_query"
    /\ ~TestCacheHit
    /\ calls' = calls \cup {"synthesize"}
    /\ Raise("synthesis", LlmError)
    /\ UNCHANGED <<variant, served, question, locals, executed, authorized, agentSteps,
                   caches, answered, gateVars, utilVars, threads>>

\* what follows a database call whose result the handler parses: rows, no
\* rows, a database error, or (api.py, main.py) a result text that
\* ast.literal_eval rejects
AfterRun(outcome, next) ==
    \/ /\ outcome = "rows"
       /\ data_tuples' = ResultRows
       /\ pc' = next
       /\ UNCHANGED <<summary, response, failures>>
    \/ /\ outcome = "norows"
       /\ summary' = NoResults
       /\ pc' = "chart"
       /\ UNCHANGED <<data_tuples, response, failures>>
    \/ /\ outcome = "error"
       /\ Raise("execution", DbError)
       /\ UNCHANGED <<data_tuples, summary>>
    \/ /\ outcome = "unparseable"
       /\ Raise("parsing", LiteralEvalError)
       /\ UNCHANGED <<data_tuples, summary>>

\* what the database can answer to a statement: rows come back from a SELECT
\* only, any statement may return nothing or be refused
DbOutcomes(sql) ==
    {"norows", "error"} \cup
        (IF StartsWith(Lower(Strip(sql)), W_select) THEN {"rows"} ELSE {})

\* db.run renders the result as a string for ast.literal_eval, which cannot
\* read every rendering (the empty string, dates, decimals)
StrOutcomes(sql) == DbOutcomes(sql) \cup {"unparseable"}

\* src/app/api.py: result_str = db.run(generated_sql)
ExecuteApi ==
    /\ pc = "execute"
    /\ variant = "api"
    /\ calls' = calls \cup {"db"}
    /\ executed' = Append(executed, generated_sql)
    /\ \E outcome \in StrOutcomes(generated_sql) :
          AfterRun(outcome, "columns")
    /\ UNCHANGED <<variant, served, question, intent, generated_sql, column_names,
                   result_data, bullets, axis_titles, authorized, agentSteps, caches,
                   answered, gateVars, utilVars, threads>>

\* src/main.py: result_str = safe_sql_tool.invoke(generated_sql)
ExecuteMain ==
    /\ pc = "execute"
    /\ variant = "main"
    /\ IF SafeRun(generated_sql).blocked
       THEN /\ calls' = calls \cup {"gate"}
            /\ Raise("gate", BlockedMsg(SafeRun(generated_sql).keyword))
            /\ UNCHANGED <<executed, authorized, data_tuples, summary>>
       ELSE /\ calls' = calls \cup {"gate", "db"}
            /\ authorized' = authorized \cup {generated_sql}
            /\ executed' = executed \o SafeRun(generated_sql).run
            /\ \E outcome \in StrOutcomes(generated_sql) :
                  AfterRun(outcome, "columns")
    /\ UNCHANGED <<variant, served, question, intent, generated_sql, column_names,
                   result_data, bullets, axis_titles, agentSteps, caches, answered,
                   gateVars, utilVars, threads>>

\* src/test.py: connection.execute(sqlalchemy.text(generated_sql)), which also
\* gives the column names
ExecuteTest ==
    /\ pc = "execute"
    /\ variant = "test"
    /\ calls' = calls \cup {"db"}
    /\ executed' = Append(executed, generated_sql)
    /\ \E outcome \in DbOutcomes(generated_sql) :
          /\ AfterRun(outcome, "format")
          /\ column_names' = IF outcome = "error" THEN column_names ELSE ResultColumns
    /\ UNCHANGED <<variant, served, question, intent, generated_sql, result_data,
                   bullets, axis_titles, authorized, agentSteps, caches, answered,
                   gateVars, utilVars, threads>>

\* api.py: db._engine.execute(generated_sql).cursor.description;
\* main.py: get_column_names_from_sql(generated_sql). The query runs again.
ColumnLookup ==
    /\ pc = "columns"
    /\ calls' = calls \cup {"db"}
    /\ executed' = Append(executed, generated_sql)
    /\ \/ /\ column_names' = ResultColumns
          /\ pc' = "format"
          /\ UNCHANGED <<response, failures>>
       \/ /\ Raise("execution", DbError)
          /\ UNCHANGED column_names
    /\ UNCHANGED <<variant, served, question, intent, generated_sql, data_tuples,
                   result_data, summary, bullets, axis_titles, authorized, agentSteps,
                   caches, answered, gateVars, utilVars, threads>>

\* the formatting loop over result_data
Format ==
    /\ pc = "format"
    /\ IF TableInferenceRaises(generated_sql)
       THEN /\ Raise("formatting", IndexError)
            /\ UNCHANGED result_data
       ELSE /\ result_data' = FormatRows(ZipRows(column_names, data_tuples), generated_sql)
            /\ pc' = "narrative"
            /\ UNCHANGED <<response, failures>>
    /\ UNCHANGED <<variant, served, question, intent, generated_sql, data_tuples,
                   column_names, summary, bullets, axis_titles, calls, executed,
                   authorized, agentSteps, caches, answered, gateVars, utilVars, threads>>

\* insight = narrative_chain.invoke(...); insight.get("summary", ""),
\* insight.get("bullets", [])
Narrative ==
    /\ pc = "narrative"
    /\ calls' = calls \cup {"narrative"}
    /\ \/ /\ summary' = <<"S1">>
          /\ bullets' = <<"B1">>
          /\ pc' = "axis"
          /\ UNCHANGED <<response, failures>>
       \/ /\ summary' = EmptyText
          /\ bullets' = <<>>
          /\ pc' = "axis"
          /\ UNCHANGED <<response, failures>>
       \/ /\ Raise("narrative", LlmError)
          /\ UNCHANGED <<summary, bullets>>
    /\ UNCHANGED <<variant, served, question, intent, generated_sql, data_tuples,
                   column_names, result_data, axis_titles, executed, authorized,
                   agentSteps, caches, answered, gateVars, utilVars, threads>>

\* the fallback the specification describes: blank where a column is missing
AxisFallbackBlank(columns) ==
    [x |-> IF Len(columns) > 0 THEN columns[1] ELSE <<>>,
     y |-> IF Len(columns) > 1 THEN columns[2] ELSE <<>>]

\* the fallback of get_axis_titles_llm
AxisFallback(columns) ==
    [x |-> IF Len(columns) > 0 THEN columns[1] ELSE <<"X">>,
     y |-> IF Len(columns) > 1 THEN columns[2] ELSE <<"Y">>]

\* axis_titles = get_axis_titles_llm(question, generated_sql, column_names):
\* the model's titles, or the fallback when the call or the parse fails or
\* the result lacks "x" or "y"
AxisTitles ==
    /\ pc = "axis"
    /\ calls' = calls \cup {"axis"}
    /\ \/ /\ axis_titles' = LlmAxis
          /\ UNCHANGED failures
       \/ /\ axis_titles' = AxisFallback(column_names)
          /\ failures' = failures \cup {"axis"}
    /\ pc' = "chart"
    /\ UNCHANGED <<variant, served, question, intent, generated_sql, data_tuples,
                   column_names, result_data, summary, bullets, response, executed,
                   authorized, agentSteps, caches, answered, gateVars, utilVars, threads>>

\* the model's label returned as it is, without the fallback
ChartTypeNoFallback(reply) == Lower(Strip(reply))

\* a label outside the four is replaced by the name of a chart the envelope
\* does not know
ChartTypeFallbackLine(reply) ==
    LET chart_type == Lower(Strip(reply))
    IN  IF chart_type \in {C_kpi, C_bar, C_pie, C_table} THEN chart_type
        ELSE <<"l","i","n","e">>

\* get_ai_chart_recommendation, from the model's reply on
ChartType(reply) ==
    LET chart_type == Lower(Strip(reply))
    IN  IF chart_type \in {C_kpi, C_bar, C_pie, C_table} THEN chart_type ELSE C_table

\* chart_type = get_ai_chart_recommendation(...) after the try block, then the
\* success response; test.py stores it in QUERY_CACHE for a data_query
Respond ==
    /\ pc = "chart"
    /\ \E reply \in ChartReplies :
          response' = SuccessResponse(question, generated_sql, result_data, summary,
                                      bullets, ChartType(reply), axis_titles)
    /\ IF variant = "test" /\ intent = "data_query"
       THEN /\ QUERY_CACHE' = StoreEntry(QUERY_CACHE, question, response')
            /\ storedUnder' = (<<"QUERY_CACHE", question>> :> intent) @@ storedUnder
            /\ calls' = calls \cup {"chart", "cache_write"}
       ELSE /\ UNCHANGED <<QUERY_CACHE, storedUnder>>
            /\ calls' = calls \cup {"chart"}
    /\ pc' = "done"
    /\ UNCHANGED <<variant, served, question, locals, executed, authorized, failures,
                   agentSteps, DESCRIPTIVE_CACHE, answered, gateVars, utilVars, threads>>

\* llm.invoke raises inside get_ai_chart_recommendation: no except covers it
ChartRaises ==
    /\ pc = "chart"
    /\ calls' = calls \cup {"chart"}
    /\ failures' = failures \cup {"chart"}
    /\ pc' = "crashed"
    /\ UNCHANGED <<variant, served, question, locals, response, executed, authorized,
                   agentSteps, caches, answered, gateVars, utilVars, threads>>

\* a plausible bug: the else branch is reached without the destructive_request
\* test before it
DescriptiveBranchAnyIntent ==
    /\ pc = "route"
    /\ intent # "data_query"
    /\ ~TestCacheHit

\* the else branch (any intent but destructive_request and data_query)
DescriptiveBranch ==
    /\ pc = "route"
    /\ intent \notin {"destructive_request", "data_query"}
    /\ ~TestCacheHit

\* api.py, main.py: if question in DESCRIPTIVE_CACHE, the cached narrative and
\* bullets become the answer
DescriptiveCached ==
    /\ DescriptiveBranch
    /\ variant \in {"api", "main"}
    /\ question \in DOMAIN DESCRIPTIVE_CACHE
    /\ summary' = DESCRIPTIVE_CACHE[question].narrative
    /\ bullets' = DESCRIPTIVE_CACHE[question].bullets
    /\ axis_titles' = BlankAxis
    /\ calls' = calls \cup {"cache_hit"}
    /\ pc' = "chart"
    /\ UNCHANGED <<variant, served, question, intent, generated_sql, data_tuples,
                   column_names, result_data, response, executed, authorized,
                   failures, agentSteps, caches, answered, gateVars, utilVars, threads>>

\* agent_executor.invoke({"input": question}) starts
AgentInvoke ==
    /\ DescriptiveBranch
    /\ variant \in {"api", "main"} => question \notin DOMAIN DESCRIPTIVE_CACHE
    /\ calls' = calls \cup {"agent"}
    /\ pc' = "agent"
    /\ UNCHANGED <<variant, served, question, locals, response, executed, authorized,
                   failures, agentSteps, caches, answered, gateVars, utilVars, threads>>

\* agent_tools = [safe_sql_tool, list_tables_tool, info_sql_tool], by tool name
agent_tools == {"sql_db_query_checker", "sql_db_list_tables", "sql_db_schema"}

\* a plausible bug: the agent is given a tool that runs whatever it is handed
UnsafeTool(v, query) == [blocked |-> FALSE, keyword |-> "", run |-> <<query>>]

\* the _run of the version that is running
SafeTool(v, query) == IF v = "test" THEN SafeRunTest(query) ELSE SafeRun(query)

\* the agent picks sql_db_query_checker (safe_sql_tool) with a query it wrote;
\* a database error raised inside the tool leaves agent_executor.invoke
AgentQueryTool ==
    /\ pc = "agent"
    /\ "sql_db_query_checker" \in agent_tools
    /\ agentSteps < MaxAgentSteps
    /\ agentSteps' = agentSteps + 1
    /\ \E query \in AgentQueries :
          IF SafeTool(variant, query).blocked
          THEN /\ calls' = calls \cup {"agent_gate"}
               /\ UNCHANGED <<executed, authorized, response, failures, pc>>
          ELSE /\ calls' = calls \cup {"agent_gate", "db"}
               /\ authorized' = authorized \cup {SafeTool(variant, query).run[1]}
               /\ executed' = executed \o SafeTool(variant, query).run
               /\ \/ UNCHANGED <<response, failures, pc>>
                  \/ Raise("agent", DbError)
    /\ UNCHANGED <<variant, served, question, locals, caches, answered, gateVars, utilVars, threads>>

\* the agent picks list_tables_tool or info_sql_tool: no query text of the
\* model's reaches the database
AgentInfoTool ==
    /\ pc = "agent"
    /\ agentSteps < MaxAgentSteps
    /\ agentSteps' = agentSteps + 1
    /\ \E tool \in agent_tools \ {"sql_db_query_checker"} : calls' = calls \cup {tool}
    /\ UNCHANGED <<variant, served, question, locals, response, executed, authorized,
                   failures, pc, caches, answered, gateVars, utilVars, threads>>

\* what agent_executor.invoke returns as "output": the final answer, or the
\* stop text once the step budget is used up
AgentOutputs == IF agentSteps < MaxAgentSteps THEN {<<"A1">>} ELSE {BudgetText}

\* api.py, main.py: DESCRIPTIVE_CACHE[question] = {"narrative", "bullets"}
DescriptiveEntry(output) == [narrative |-> output, bullets |-> <<>>]

\* test.py: the entry stored for a specific descriptive question
DescriptiveEntryTest(agent_answer) ==
    [narrative |-> agent_answer, bullets |-> <<>>, schema_structured |-> Null,
     agent_answer |-> agent_answer, schema_sample_data |-> Null]

\* agent_executor.invoke returns
AgentFinish ==
    /\ pc = "agent"
    /\ \E output \in AgentOutputs :
          IF variant = "test"
          THEN /\ pc' = "done"
               /\ IF IsGenericSchemaQuestion(question)
                  THEN /\ response' = SchemaResponse(question)
                       /\ UNCHANGED <<DESCRIPTIVE_CACHE, storedUnder, calls>>
                  ELSE /\ DESCRIPTIVE_CACHE' =
                              StoreEntry(DESCRIPTIVE_CACHE, question,
                                         DescriptiveEntryTest(output))
                       /\ storedUnder' =
                              (<<"DESCRIPTIVE_CACHE", question>> :> intent) @@ storedUnder
                       /\ calls' = calls \cup {"cache_write"}
                       /\ response' = AgentResponse(question, output)
               /\ UNCHANGED <<summary, bullets, axis_titles>>
          ELSE /\ summary' = output
               /\ bullets' = <<>>
               /\ DESCRIPTIVE_CACHE' =
                      StoreEntry(DESCRIPTIVE_CACHE, question, DescriptiveEntry(output))
               /\ storedUnder' =
                      (<<"DESCRIPTIVE_CACHE", question>> :> intent) @@ storedUnder
               /\ calls' = calls \cup {"cache_write"}
               /\ axis_titles' = BlankAxis
               /\ pc' = "chart"
               /\ UNCHANGED response
    /\ UNCHANGED <<variant, served, question, intent, generated_sql, data_tuples,
                   column_names, result_data, executed, authorized, failures,
                   agentSteps, QUERY_CACHE, answered, gateVars, utilVars, threads>>

\* agent_executor.invoke raises (a model call fails)
AgentRaises ==
    /\ pc = "agent"
    /\ Raise("agent", LlmError)
    /\ UNCHANGED <<variant, served, question, locals, calls, executed, authorized,
                   agentSteps, caches, answered, gateVars, utilVars, threads>>

Next ==
    \/ Receive
    \/ Classify
    \/ ClassifyRaises
    \/ ReturnCached
    \/ ReturnBlocked
    \/ Synthesize
    \/ SynthesizeRaises
    \/ ExecuteApi
    \/ ExecuteMain
    \/ ExecuteTest
    \/ ColumnLookup
    \/ Format
    \/ Narrative
    \/ AxisTitles
    \/ Respond
    \/ ChartRaises
    \/ DescriptiveCached
    \/ AgentInvoke
    \/ AgentQueryTool
    \/ AgentInfoTool
    \/ AgentFinish
    \/ AgentRaises

Spec == Init /\ [][Next]_vars

----------------------------------------------------------------------------
(* Helper harness: the helper functions applied to bounded sets of         *)
(* arguments                                                               *)

\* the texts the chart recommendation model may answer with, padded
ChartWords ==
    {C_kpi, C_bar, C_pie, C_table, C_none, Upper(C_kpi), <<"B","a","r">>,
     <<"P","i","E">>, Upper(C_table), <<"s","c","a","t","t","e","r">>, <<>>,
     <<"k","p","i","s">>, <<"b","a","r"," ","c","h","a","r","t">>, <<"l","i","n","e">>}

ChartPads == {<<>>, <<" ">>, <<"\n">>, <<"\t", " ">>}

ChartTexts ==
    {a \o w \o b : a \in ChartPads, w \in ChartWords, b \in ChartPads \cup {<<".">>}}

ChartCalls == {[fn |-> "get_ai_chart_recommendation", args |-> <<t>>] : t \in ChartTexts}

\* get_ai_chart_recommendation, once llm.invoke has returned
CallChartRecommendation ==
    /\ fcall.fn = "get_ai_chart_recommendation"
    /\ fret = <<>>
    /\ fret' = <<ChartType(fcall.args[1])>>
    /\ UNCHANGED <<fcall, handlerVars, gateVars, threads>>

\* the column lists get_axis_titles_llm may be given
AxisColumns ==
    {<<>>, <<W_month>>, <<W_month, W_total_amount>>, <<W_month, W_total_amount, W_quantity>>}

\* what axis_title_parser.invoke(llm.invoke(prompt)) does: it raises (the
\* model call fails or the output does not parse) or it returns a value
AxisLlmOutcomes ==
    {[kind |-> "raises", result |-> <<>>],
     [kind |-> "list", result |-> <<LlmAxis.x, LlmAxis.y>>],
     [kind |-> "dict", result |-> LlmAxis],
     [kind |-> "dict", result |-> [x |-> LlmAxis.x]],
     [kind |-> "dict", result |-> [y |-> LlmAxis.y]],
     [kind |-> "dict", result |-> [title |-> LlmAxis.x]]}

AxisCalls ==
    {[fn |-> "get_axis_titles_llm", args |-> <<c, o>>] :
        c \in AxisColumns, o \in AxisLlmOutcomes}

\* get_axis_titles_llm(question, sql, columns)
get_axis_titles_llm(columns, llm) ==
    IF llm.kind = "dict" /\ "x" \in DOMAIN llm.result /\ "y" \in DOMAIN llm.result
    THEN llm.result
    ELSE AxisFallback(columns)

CallAxisTitles ==
    /\ fcall.fn = "get_axis_titles_llm"
    /\ fret = <<>>
    /\ fret' = <<get_axis_titles_llm(fcall.args[1], fcall.args[2])>>
    /\ UNCHANGED <<fcall, handlerVars, gateVars, threads>>

\* synthesized queries with and without an ordering and a row limit, in
\* several letter cases
PostOrderings ==
    {<<>>, <<" ">> \o W_order_by \o <<" ">> \o W_month \o <<" ">> \o W_desc,
     <<" ">> \o Upper(W_order_by) \o <<" ">> \o W_month \o <<" ">> \o Upper(W_desc),
     <<" ","O","r","d","e","r"," ","B","y"," ">> \o W_month \o <<" ","D","e","s","c">>,
     <<" ">> \o W_order_by \o <<" ">> \o W_total_amount \o <<" ">> \o W_desc}

PostLimits ==
    {<<>>, <<" ">> \o W_limit_5, <<" ">> \o Upper(W_limit_5),
     <<" ","L","i","m","i","t"," ","5">>, <<" ","L","I","M","I","T"," ","1","2">>}

PostQueries ==
    {W_select \o <<" ">> \o W_month \o <<" ">> \o W_from \o <<" ">> \o W_orders \o o \o l :
        o \in PostOrderings, l \in PostLimits}

PostCalls == {[fn |-> "postprocess_sql_for_time_series", args |-> <<q>>] : q \in PostQueries}

CallPostprocess ==
    /\ fcall.fn = "postprocess_sql_for_time_series"
    /\ fret = <<>>
    /\ fret' = <<postprocess_sql_for_time_series(fcall.args[1])>>
    /\ UNCHANGED <<fcall, handlerVars, gateVars, threads>>

\* column names in and out of the schema, with and without a monetary word,
\* and the table they are looked up in: none, the schema's table, another one
CurrencyColumns ==
    {W_total_amount, <<"T","o","t","a","l","_","A","m","o","u","n","t">>, W_quantity,
     W_payment_method, <<"t","o","t","a","l","_","s","a","l","e","s">>,
     <<"u","n","i","t","_","p","r","i","c","e">>}

CurrencyTables == {<<>>, W_orders, <<"u","s","e","r","s">>}

CurrencyCalls ==
    {[fn |-> "is_currency_column_smart", args |-> <<c, t>>] :
        c \in CurrencyColumns, t \in CurrencyTables}

CallIsCurrencySmart ==
    /\ fcall.fn = "is_currency_column_smart"
    /\ fret = <<>>
    /\ fret' = <<is_currency_column_smart(fcall.args[1], fcall.args[2])>>
    /\ UNCHANGED <<fcall, handlerVars, gateVars, threads>>

\* raw results for the formatting loop: one or two rows over three columns,
\* with whole, fractional, tied, negative, infinite and textual values
FormatColumns == <<W_total_amount, W_quantity, W_payment_method>>

FormatTuples ==
    {<<a, IntVal(3), StrVal(<<"c","a","r","d">>)>> :
        a \in {FloatVal(12345678), FloatVal(25), FloatVal(-15), IntVal(1000), InfVal,
               StrVal(<<"n","/","a">>)}}
    \cup {<<IntVal(7), FloatVal(15), IntVal(12)>>}

FormatResults ==
    {ZipRows(FormatColumns, <<r>>) : r \in FormatTuples}
    \cup {ZipRows(FormatColumns, <<r1, r2>>) : r1 \in FormatTuples, r2 \in FormatTuples}

\* queries naming the schema's table, no table, and a table not in the schema
FormatQueries ==
    {SqlSelect, W_select \o <<" ">> \o W_total_amount,
     W_select \o <<" ","*"," ">> \o W_from \o <<" ","u","s","e","r","s">>}

FormatCalls ==
    {[fn |-> "format_rows", args |-> <<data, sql>>] :
        data \in FormatResults, sql \in FormatQueries}

\* the formatting loop of handle_get_insight over one raw result
CallFormatRows ==
    /\ fcall.fn = "format_rows"
    /\ fret = <<>>
    /\ fret' = <<FormatRows(fcall.args[1], fcall.args[2])>>
    /\ UNCHANGED <<fcall, handlerVars, gateVars, threads>>

UtilCalls == ChartCalls \cup AxisCalls \cup PostCalls \cup CurrencyCalls \cup FormatCalls

UtilInit ==
    /\ fcall \in UtilCalls
    /\ fret = <<>>
    /\ threads = <<>>
    /\ HandlerIdle
    /\ GateIdle

UtilNext ==
    \/ CallChartRecommendation
    \/ CallAxisTitles
    \/ CallPostprocess
    \/ CallIsCurrencySmart
    \/ CallFormatRows

UtilSpec == UtilInit /\ [][UtilNext]_vars

----------------------------------------------------------------------------
(* Concurrent requests: handle_get_insight of src/test.py running in       *)
(* several threads over the two module-level dicts                         *)

MaxThreads == 2

Threads == 1..MaxThreads

\* a question cached before the racing requests arrive
Q_other == <<"o","l","d">>

RaceRows == FormatRows(ZipRows(ResultColumns, ResultRows), SqlSelect)

\* the narratives and agent answers the model may give to the same question
RaceTexts == {<<"S1">>, <<"S2">>}

RacePreloadQuery ==
    Q_other :> SuccessResponse(Q_other, SqlSelect, RaceRows, <<"S0">>, <<>>, C_table,
                               LlmAxis)

RacePreloadDescriptive == Q_other :> DescriptiveEntryTest(<<"A0">>)

RaceStart(q, i) ==
    [pc |-> "lookup", question |-> q, intent |-> i, missed |-> FALSE, text |-> <<>>,
     response |-> NoResponse]

RaceInit ==
    /\ threads \in [Threads -> {RaceStart(q, i) :
                                  q \in Questions,
                                  i \in {"data_query", "descriptive_question"}}]
    /\ QUERY_CACHE = RacePreloadQuery
    /\ DESCRIPTIVE_CACHE = RacePreloadDescriptive
    /\ variant = "none" /\ pc = "off" /\ served = 0 /\ question = <<>>
    /\ intent = "unset" /\ generated_sql = NA /\ data_tuples = <<>>
    /\ column_names = <<>> /\ result_data = <<>> /\ summary = EmptyText
    /\ bullets = <<>> /\ axis_titles = BlankAxis /\ response = NoResponse
    /\ calls = {} /\ executed = <<>> /\ authorized = {} /\ failures = {}
    /\ agentSteps = 0 /\ answered = EmptyCache /\ storedUnder = EmptyCache
    /\ GateIdle
    /\ fcall = NoCall /\ fret = <<>>

RaceFrame ==
    UNCHANGED <<variant, pc, served, question, locals, response, logs, answered,
                storedUnder, gateVars, utilVars>>

\* test.py: the two lookups before the try block
RaceLookup(t) ==
    LET th == threads[t]
    IN  /\ th.pc = "lookup"
        /\ threads' =
              [threads EXCEPT ![t] =
                  IF th.intent = "data_query" /\ th.question \in DOMAIN QUERY_CACHE
                  THEN [th EXCEPT !.pc = "done",
                                  !.response = QUERY_CACHE[th.question]]
                  ELSE IF th.intent = "descriptive_question"
                          /\ th.question \in DOMAIN DESCRIPTIVE_CACHE
                  THEN [th EXCEPT !.pc = "done",
                                  !.response = CachedDescriptiveResponse(
                                      th.question, DESCRIPTIVE_CACHE[th.question])]
                  ELSE [th EXCEPT !.pc = "work", !.missed = TRUE]]
        /\ UNCHANGED <<DESCRIPTIVE_CACHE, QUERY_CACHE>>
        /\ RaceFrame

\* test.py: the try block, up to the statement that touches a cache; an
\* exception inside it ends the request with the failure response
RaceWork(t) ==
    LET th == threads[t]
    IN  /\ th.pc = "work"
        /\ \/ \E text \in RaceTexts :
                 threads' =
                    [threads EXCEPT ![t] =
                        IF th.intent = "data_query"
                        THEN [th EXCEPT !.pc = "chart", !.text = text]
                        ELSE IF IsGenericSchemaQuestion(th.question)
                        THEN [th EXCEPT !.pc = "done",
                                        !.response = SchemaResponse(th.question)]
                        ELSE [th EXCEPT !.pc = "store", !.text = text]]
           \/ threads' =
                 [threads EXCEPT ![t] =
                     [th EXCEPT !.pc = "done",
                                !.response = FailureResponse(th.question, NA, LlmError)]]
        /\ UNCHANGED <<DESCRIPTIVE_CACHE, QUERY_CACHE>>
        /\ RaceFrame

\* test.py: chart_type = get_ai_chart_recommendation(...) after the try
\* block and the response dict built from it
RaceChart(t) ==
    LET th == threads[t]
    IN  /\ th.pc = "chart"
        /\ \/ \E reply \in ChartReplies :
                 threads' =
                    [threads EXCEPT ![t] =
                        [th EXCEPT !.pc = "store",
                                   !.response =
                                       SuccessResponse(th.question, SqlSelect, RaceRows,
                                                       th.text, <<"B1">>,
                                                       ChartType(reply), LlmAxis)]]
           \/ threads' = [threads EXCEPT ![t] = [th EXCEPT !.pc = "crashed"]]
        /\ UNCHANGED <<DESCRIPTIVE_CACHE, QUERY_CACHE>>
        /\ RaceFrame

\* test.py: QUERY_CACHE[question] = response; return response, and
\* DESCRIPTIVE_CACHE[question] = {...}; return {...}
RaceStore(t) ==
    LET th == threads[t]
    IN  /\ th.pc = "store"
        /\ IF th.intent = "data_query"
           THEN /\ QUERY_CACHE' = StoreEntry(QUERY_CACHE, th.question, th.response)
                /\ threads' = [threads EXCEPT ![t] = [th EXCEPT !.pc = "done"]]
                /\ UNCHANGED DESCRIPTIVE_CACHE
           ELSE /\ DESCRIPTIVE_CACHE' =
                      StoreEntry(DESCRIPTIVE_CACHE, th.question,
                                 DescriptiveEntryTest(th.text))
                /\ threads' =
                      [threads EXCEPT ![t] =
                          [th EXCEPT !.pc = "done",
                                     !.response = AgentResponse(th.question, th.text)]]
                /\ UNCHANGED QUERY_CACHE
        /\ RaceFrame

RaceNext ==
    \E t \in Threads : RaceLookup(t) \/ RaceWork(t) \/ RaceChart(t) \/ RaceStore(t)

RaceSpec == RaceInit /\ [][RaceNext]_vars

----------------------------------------------------------------------------
(* Properties of the Safety Gate                                           *)

WordChars == Range(LowerLetters) \cup Range(UpperLetters) \cup Digits \cup {"_"}

\* the ten verbs the specification lists, and the nine among them that are
\* not ADD
TenVerbs == {"ADD", "DROP", "DELETE", "UPDATE", "INSERT", "GRANT", "REVOKE", "ALTER",
             "TRUNCATE", "CREATE"}

NineVerbs == TenVerbs \ {"ADD"}

\* the verb is written at position i of q, in any letter case
OccursAt(q, verb, i) ==
    /\ i >= 1
    /\ i + Len(KeywordChars[verb]) - 1 <= Len(q)
    /\ Upper(SubSeq(q, i, i + Len(KeywordChars[verb]) - 1)) = KeywordChars[verb]

\* the verb occurs in q with, on each side, the end of the text or one of delims
DelimitedBy(q, verb, delims) ==
    \E i \in DOMAIN q :
        /\ OccursAt(q, verb, i)
        /\ i = 1 \/ q[i - 1] \in delims
        /\ LET e == i + Len(KeywordChars[verb]) - 1
           IN  e = Len(q) \/ q[e + 1] \in delims

\* the verb occurs in q as a word of its own: no letter, digit or underscore
\* touches it
Standalone(q, verb) ==
    \E i \in DOMAIN q :
        /\ OccursAt(q, verb, i)
        /\ i = 1 \/ q[i - 1] \notin WordChars
        /\ LET e == i + Len(KeywordChars[verb]) - 1
           IN  e = Len(q) \/ q[e + 1] \notin WordChars

GateDone == gphase \in {"chains", "test"}

\* the text the gate inspects and would forward
GateCandidate == IF gphase = "test" THEN CleanTest(gq) ELSE gq

\* C3 (as claimed): a candidate in which a deny-listed verb stands as a word of
\* its own, delimited by space, tab, newline, ';', '(', ')' or the ends of the
\* text, is rejected and the database is not called
C3_DelimitedVerbRejected ==
    GateDone =>
        \A verb \in NineVerbs :
            DelimitedBy(gq, verb, {" ", "\t", "\n", ";", "(", ")"})
                => gres.blocked /\ gdb = <<>>

\* C4: a candidate with no deny-listed verb standing as a word of its own is
\* authorized and forwarded to the database, never answered with "blocked";
\* identifiers that contain a verb (updated_at, created_by, dropoff) included
C4_NoStandaloneVerbAuthorized ==
    (GateDone /\ \A verb \in NineVerbs : ~Standalone(GateCandidate, verb))
        => /\ ~gres.blocked
           /\ gres.out # "blocked"
           /\ gdb = <<GateCandidate>>

C4_Witness ==
    /\ gphase = "chains"
    /\ Contains(gq, W_updated_at)
    /\ ~gres.blocked
    /\ gdb = <<gq>>

\* C5 (as claimed): each of the ten verbs, ADD among them, is rejected when it
\* stands in the candidate as a word between spaces or the ends of the text
C5_TenVerbsRejected ==
    GateDone =>
        \A verb \in TenVerbs : DelimitedBy(gq, verb, {" "}) => gres.blocked

\* C5 (amended): the deny-list is the nine verbs without ADD. A rejection names
\* one of the nine; each of the nine is rejected when it stands between spaces
\* or the ends of the text; a candidate with none of the nine as a word of its
\* own, such as one whose only verb is ADD, is authorized
C5_NineVerbDenyList ==
    GateDone =>
        /\ gres.blocked => gres.keyword \in NineVerbs
        /\ \A verb \in NineVerbs :
              DelimitedBy(gq, verb, {" "}) => gres.blocked /\ gdb = <<>>
        /\ (\A verb \in NineVerbs : ~Standalone(GateCandidate, verb)) => ~gres.blocked

C5_Witness ==
    /\ GateDone
    /\ DelimitedBy(gq, "ADD", {" "})
    /\ ~gres.blocked
    /\ gdb = <<GateCandidate>>

\* the order in which the gate's loop tries the keywords
ScanOrder ==
    <<"DROP", "DELETE", "UPDATE", "INSERT", "GRANT", "REVOKE", "ALTER", "TRUNCATE", "CREATE">>

\* the keyword is one the gate's test finds in the candidate: it stands
\* between spaces or the ends of the stripped text
GateFinds(verb) == DelimitedBy(Strip(GateCandidate), verb, {" "})

\* C22: a rejection names exactly one keyword: one the gate's test finds in
\* the candidate, and the first such in the order of the gate's scan, whatever
\* else the candidate holds; it is therefore fixed by the query text alone
C22_FirstKeywordReported ==
    (GateDone /\ gres.blocked) =>
        \E i \in DOMAIN ScanOrder :
            /\ gres.keyword = ScanOrder[i]
            /\ GateFinds(ScanOrder[i])
            /\ \A j \in 1..(i - 1) : ~GateFinds(ScanOrder[j])

\* DELETE opens the candidate and DROP comes later in it; DROP, which the
\* scan tries first, is the keyword reported
C22_Witness ==
    /\ GateDone
    /\ gq = KeywordChars["DELETE"] \o <<" ","x"," ",";"," ">> \o KeywordChars["DROP"]
                \o <<" ","y">>
    /\ gres.blocked
    /\ gres.keyword = "DROP"

----------------------------------------------------------------------------
(* Properties of handle_get_insight                                        *)

\* the calls that reach a language model, and those that reach the database
LlmCalls == {"classify", "synthesize", "narrative", "axis", "chart", "agent"}
DbCalls == {"db"}

EnvelopeKeys == {"query", "sql", "data", "narrative", "chartType", "error"}

\* C1 (as claimed): every query text handed to the database in a request was
\* passed to the Safety Gate and authorized by it before
C1_ExecutedWasAuthorized ==
    \A i \in DOMAIN executed : executed[i] \in authorized

\* C2: in a request classified destructive_request the Query Synthesizer, the
\* agent, the Safety Gate and the database are never called, and the request
\* ends with the blocked response
C2_DestructiveShortCircuits ==
    intent = "destructive_request" =>
        /\ calls \subseteq {"classify"}
        /\ executed = <<>>
        /\ pc \in {"route", "done"}
        /\ pc = "done" => response = BlockedResponse(question)

C2_Witness ==
    /\ pc = "done"
    /\ intent = "destructive_request"
    /\ response = BlockedResponse(question)
    /\ calls = {"classify"}

\* C6 (as claimed): when the classifier's output cannot be parsed, has no
\* intent field or carries a label outside the three known ones, the request
\* ends with an error response and the synthesizer, the agent and the
\* database are not called
C6_ClassificationFailsClosed ==
    intent \in {"raised", "NONE", "other"} =>
        /\ calls \subseteq {"classify"}
        /\ executed = <<>>
        /\ pc \in {"route", "done"}
        /\ pc = "done" => response.error # Null

\* C7 (as claimed): a later request for a question the first request answered
\* with success ends with a response equal to that first response, and calls
\* neither a language model nor the database
C7_RepeatIsIdempotent ==
    (served >= 2 /\ question \in DOMAIN answered) =>
        /\ calls \cap (LlmCalls \cup DbCalls) = {}
        /\ pc \in {"classify", "route", "done"}
        /\ pc = "done" => response = answered[question]

\* C8 (as claimed): no failure leaves the handler as an exception, and a
\* request in which a stage failed ends with a response that has the six
\* envelope keys and a non-null error
C8_FailuresRendered ==
    /\ pc # "crashed"
    /\ (pc = "done" /\ failures # {}) =>
          /\ EnvelopeKeys \subseteq DOMAIN response
          /\ response.error # Null

\* C9: once the database has refused the executed query of a data_query
\* request, the request is over with data = [], chartType = "none" and
\* error = narrative = a message that holds the database's error text; the
\* formatter, the narrative, axis-title and chart calls and the cache write
\* have not run
C9_DbErrorAborts ==
    "execution" \in failures =>
        /\ pc = "done"
        /\ response.data = <<>>
        /\ response.chartType = C_none
        /\ response.error # Null
        /\ response.error = response.narrative
        /\ Contains(response.error, DbError)
        /\ result_data = <<>>
        /\ calls \cap {"narrative", "axis", "chart", "cache_write"} = {}
        /\ question \notin DOMAIN QUERY_CACHE \/ QUERY_CACHE[question] # response

C9_Witness ==
    /\ pc = "done"
    /\ "execution" \in failures
    /\ executed # <<>>
    /\ response = FailureResponse(question, generated_sql, DbError)

\* C10: once the Safety Gate has rejected the synthesized query of a
\* data_query request, the request is over with a response whose error is
\* non-null and holds the keyword the gate found in the query, data = [] and
\* chartType = "none"; the database, the narrative, axis-title and chart
\* calls have not run and no cache was written
C10_GateRejectionAborts ==
    "gate" \in failures =>
        /\ pc = "done"
        /\ intent = "data_query"
        /\ response.error # Null
        /\ SafeRun(generated_sql).blocked
        /\ Contains(response.error, <<SafeRun(generated_sql).keyword>>)
        /\ KeywordHit(Upper(Strip(generated_sql)), SafeRun(generated_sql).keyword)
        /\ response.data = <<>>
        /\ response.chartType = C_none
        /\ executed = <<>>
        /\ calls \cap {"db", "narrative", "axis", "chart", "cache_write"} = {}

C10_Witness ==
    /\ pc = "done"
    /\ "gate" \in failures
    /\ generated_sql = SqlDrop
    /\ Contains(response.error, <<"DROP">>)
    /\ calls = {"classify", "synthesize", "gate"}

\* C11 (as claimed): when the narrative call, the axis-title call or the chart
\* call fails for a data_query whose query ran, the request still ends with a
\* success response (error null) carrying the formatted rows, never with a
\* failure response or an exception
C11_PresentationFailSoft ==
    (intent = "data_query" /\ failures \cap {"narrative", "axis", "chart"} # {}) =>
        /\ pc # "crashed"
        /\ pc = "done" => /\ response.error = Null
                          /\ response.data = result_data
                          /\ result_data # <<>>

----------------------------------------------------------------------------
(* Properties of the helper functions                                      *)

ChartLabels == {C_kpi, C_bar, C_pie, C_table}

Returned(fn) == fcall.fn = fn /\ fret # <<>>

\* C12: get_ai_chart_recommendation returns the model's text, trimmed and
\* lower-cased, when that is exactly kpi, bar, pie or table, and "table" for
\* every other text; its result is always one of the four labels
C12_ChartFallsBackToTable ==
    Returned("get_ai_chart_recommendation") =>
        LET label == Lower(Strip(fcall.args[1]))
        IN  /\ fret[1] \in ChartLabels
            /\ label \in ChartLabels => fret[1] = label
            /\ label \notin ChartLabels => fret[1] = C_table

C12_Witness ==
    /\ Returned("get_ai_chart_recommendation")
    /\ Contains(fcall.args[1], <<"s","c","a","t","t","e","r">>)
    /\ fret = <<C_table>>

\* the axis-title generation failed: the call raised, or its result is not a
\* dict with both "x" and "y"
AxisGenerationFailed ==
    LET llm == fcall.args[2]
    IN  \/ llm.kind # "dict"
        \/ ~({"x", "y"} \subseteq DOMAIN llm.result)

\* C13 (as claimed): when axis-title generation fails, x is the first column
\* name and y the second, and each is the empty string when the result set
\* has no such column
C13_AxisFallbackBlank ==
    (Returned("get_axis_titles_llm") /\ AxisGenerationFailed) =>
        LET columns == fcall.args[1]
        IN  /\ fret[1].x = IF Len(columns) > 0 THEN columns[1] ELSE <<>>
            /\ fret[1].y = IF Len(columns) > 1 THEN columns[2] ELSE <<>>

\* C13 (amended): when axis-title generation fails, x is the first column
\* name, or "X" when there is no column, and y is the second column name, or
\* "Y" when there are fewer than two columns
C13_AxisFallbackXY ==
    (Returned("get_axis_titles_llm") /\ AxisGenerationFailed) =>
        LET columns == fcall.args[1]
        IN  /\ DOMAIN fret[1] = {"x", "y"}
            /\ fret[1].x = IF Len(columns) > 0 THEN columns[1] ELSE <<"X">>
            /\ fret[1].y = IF Len(columns) > 1 THEN columns[2] ELSE <<"Y">>

C13_Witness ==
    /\ Returned("get_axis_titles_llm")
    /\ fcall.args[2].kind = "raises"
    /\ Len(fcall.args[1]) = 1
    /\ fret = <<[x |-> W_month, y |-> <<"Y">>]>>

----------------------------------------------------------------------------
(* Properties of the caches                                                *)

\* the cache a request with this intent reads
CacheRead == IF intent = "data_query" THEN "QUERY_CACHE" ELSE "DESCRIPTIVE_CACHE"

\* C14 (as claimed): a request is answered from a cache entry only if that
\* entry was stored for the same question under the same intent as the
\* request's
C14_CacheKeyedByIntent ==
    "cache_hit" \in calls =>
        /\ <<CacheRead, question>> \in DOMAIN storedUnder
        /\ storedUnder[<<CacheRead, question>>] = intent

\* C15 (as claimed): after a request that ends with a success response the
\* cache its intent reads holds an entry for the question, and no cache holds
\* a failure, a blocked response or the agent's budget-exhaustion text
C15_CachedIffSucceeded ==
    /\ (pc = "done" /\ response.error = Null) =>
          question \in DOMAIN (IF CacheRead = "QUERY_CACHE" THEN QUERY_CACHE
                               ELSE DESCRIPTIVE_CACHE)
    /\ \A q \in DOMAIN QUERY_CACHE : QUERY_CACHE[q].error = Null
    /\ \A q \in DOMAIN DESCRIPTIVE_CACHE : DESCRIPTIVE_CACHE[q].narrative # BudgetText

\* the requests that missed the cache with the same question and intent as
\* thread t
Racers(t) ==
    {u \in DOMAIN threads :
        /\ threads[u].missed
        /\ threads[u].question = threads[t].question
        /\ threads[u].intent = threads[t].intent}

\* the cache entries the racers of thread t built
RacerEntries(t) ==
    IF threads[t].intent = "data_query"
    THEN {threads[u].response : u \in {r \in Racers(t) : threads[r].pc = "done"}}
    ELSE {DescriptiveEntryTest(threads[u].text) :
             u \in {r \in Racers(t) : threads[r].pc = "done"}}

RaceCache(t) ==
    IF threads[t].intent = "data_query" THEN QUERY_CACHE ELSE DESCRIPTIVE_CACHE

RaceOver == threads # <<>> /\ \A t \in DOMAIN threads : threads[t].pc \in {"done", "crashed"}

\* C16 (as claimed): of concurrent requests for one question that all miss
\* the cache, each ends with a well-formed response, and afterwards the cache
\* holds for that question an entry equal to the whole entry one of them
\* built, and still holds the entries of other questions
C16_RaceLeavesOneCompleteEntry ==
    /\ \A t \in DOMAIN threads :
          /\ threads[t].pc # "crashed"
          /\ threads[t].pc = "done" => EnvelopeKeys \subseteq DOMAIN threads[t].response
    /\ RaceOver =>
          /\ \A t \in DOMAIN threads :
                threads[t].missed =>
                    /\ threads[t].question \in DOMAIN RaceCache(t)
                    /\ RaceCache(t)[threads[t].question] \in RacerEntries(t)
          /\ Q_other \in DOMAIN QUERY_CACHE
          /\ QUERY_CACHE[Q_other] = RacePreloadQuery[Q_other]
          /\ Q_other \in DOMAIN DESCRIPTIVE_CACHE
          /\ DESCRIPTIVE_CACHE[Q_other] = RacePreloadDescriptive[Q_other]

\* what the interleavings do keep: a request that returns has a well-formed
\* response; once all are over, the question of every request that missed
\* and returned a success response, generic schema questions apart, has in
\* its cache the whole entry one of the racers built; the entries of other
\* questions are untouched
RaceEntriesIntact ==
    /\ \A t \in DOMAIN threads :
          threads[t].pc = "done" => EnvelopeKeys \subseteq DOMAIN threads[t].response
    /\ RaceOver =>
          /\ \A t \in DOMAIN threads :
                (/\ threads[t].missed
                 /\ threads[t].pc = "done"
                 /\ threads[t].response.error = Null
                 /\ ~IsGenericSchemaQuestion(threads[t].question)) =>
                    /\ threads[t].question \in DOMAIN RaceCache(t)
                    /\ RaceCache(t)[threads[t].question] \in RacerEntries(t)
          /\ Q_other \in DOMAIN QUERY_CACHE
          /\ QUERY_CACHE[Q_other] = RacePreloadQuery[Q_other]
          /\ Q_other \in DOMAIN DESCRIPTIVE_CACHE
          /\ DESCRIPTIVE_CACHE[Q_other] = RacePreloadDescriptive[Q_other]

----------------------------------------------------------------------------
(* Properties of the descriptive agent                                     *)

\* C17: in a request the agent serves, every text that reached the database
\* was handed to the Safety Gate and passed its keyword check, and the tools
\* the agent used are among the query tool behind the gate, the table list
\* and the table description
C17_AgentHasNoBypass ==
    "agent" \in calls =>
        /\ \A i \in DOMAIN executed :
              /\ executed[i] \in authorized
              /\ FirstHit(Upper(Strip(executed[i]))) = 0
        /\ "db" \in calls => "agent_gate" \in calls
        /\ calls \subseteq {"classify", "agent", "agent_gate", "db", "cache_write",
                            "chart", "sql_db_list_tables", "sql_db_schema"}
        /\ agent_tools = {"sql_db_query_checker", "sql_db_list_tables", "sql_db_schema"}

C17_Witness ==
    /\ "agent" \in calls
    /\ "agent_gate" \in calls
    /\ executed = <<SqlSelect>>
    /\ pc = "done"
    /\ response.error = Null

\* C18 (as claimed): the agent takes a bounded number of steps, and a request
\* in which the step budget ran out ends with a failure (error non-null),
\* never with a success response whose narrative is the budget-exhaustion
\* text
C18_BudgetExhaustionIsFailure ==
    /\ agentSteps <= MaxAgentSteps
    /\ (pc = "done" /\ "agent" \in calls /\ response.narrative = BudgetText)
           => response.error # Null

\* the query has a row-limit clause; it orders by the time-like key month;
\* it orders by it downwards (in any letter case)
HasLimit(sql) == Contains(Lower(sql), <<" ">> \o SubSeq(W_limit_5, 1, 6))
OrdersByTime(sql) == Contains(Lower(sql), W_order_by \o <<" ">> \o W_month)
OrdersDescending(sql) == Contains(Lower(sql), <<" ">> \o W_desc)

\* C19 (as claimed): a query with a row limit that orders by a time-like key
\* comes back without the limit and ordered upwards, whatever the letter
\* case of the clauses; a query that does not order by a time-like key comes
\* back unchanged
C19_TimeSeriesRule ==
    Returned("postprocess_sql_for_time_series") =>
        LET sql == fcall.args[1]
            out == fret[1]
        IN  /\ (HasLimit(sql) /\ OrdersByTime(sql)) =>
                   ~HasLimit(out) /\ ~OrdersDescending(out)
            /\ ~OrdersByTime(sql) => out = sql

\* the claim's vocabulary, written out: the numeric types, the monetary
\* words, the looser words, and the declared types of a column in a table
MoneyTypes ==
    { <<"r","e","a","l">>,
      <<"n","u","m","e","r","i","c">>,
      <<"d","e","c","i","m","a","l">>,
      <<"m","o","n","e","y">>,
      <<"f","l","o","a","t">> }

MoneyWords ==
    { <<"a","m","o","u","n","t">>,
      <<"p","r","i","c","e">>,
      <<"c","o","s","t">>,
      <<"r","e","v","e","n","u","e">>,
      <<"p","a","y","m","e","n","t">>,
      <<"c","h","a","r","g","e">>,
      <<"f","e","e">>,
      <<"b","a","l","a","n","c","e">> }

LooseWords ==
    MoneyWords \cup
    { <<"t","o","t","a","l">>,
      <<"s","p","e","n","t">>,
      <<"s","a","l","e","s">>,
      <<"i","n","c","o","m","e">> }

NameHasWord(col, words) ==
    \E i \in 1..Len(col) : \E j \in i..Len(col) :
        Lower(SubSeq(col, i, j)) \in words

DeclaredNumeric(table, col) ==
    /\ table \in DOMAIN DB_SCHEMA
    /\ \E i \in DOMAIN DB_SCHEMA[table] :
          /\ Lower(DB_SCHEMA[table][i].name) = Lower(col)
          /\ Lower(DB_SCHEMA[table][i].type) \in MoneyTypes

\* C20: with a known table is_currency_column_smart is true exactly when the
\* column's declared type in that table is real, numeric, decimal, money or
\* float and its name contains a monetary word; with no table it is true
\* exactly when the name contains a monetary word or total, spent, sales,
\* income; a column absent from the known table, or of another type, is
\* never a currency column
C20_CurrencyDecision ==
    Returned("is_currency_column_smart") =>
        LET col == fcall.args[1]
            table == fcall.args[2]
        IN  IF table # <<>>
            THEN fret[1] = (DeclaredNumeric(table, col) /\ NameHasWord(col, MoneyWords))
            ELSE fret[1] = NameHasWord(col, LooseWords)

\* a column of a non-numeric type whose name holds a monetary word was
\* looked up in its table
C20_Witness ==
    /\ Returned("is_currency_column_smart")
    /\ fcall.args = <<W_payment_method, W_orders>>
    /\ fret = <<FALSE>>

----------------------------------------------------------------------------
(* Properties of the formatting loop                                       *)

\* the column is currency-valued for the table the query names
CurrencyValued(k, sql) ==
    LET table == InferTable(sql)
    IN  IF table # <<>>
        THEN DeclaredNumeric(table, k) /\ NameHasWord(k, MoneyWords)
        ELSE NameHasWord(k, LooseWords)

\* text is '$' and a whole number (thousands separated) nearest to the value
DollarsNearest(text, val) ==
    /\ text.t = "str"
    /\ \E n \in (IF val.t = "int" THEN {val.v}
                ELSE {m \in ((val.v \div 10) - 1)..((val.v \div 10) + 1) :
                         10 * m - val.v \in -5..5}) :
          text.s = <<"$">> \o (IF n < 0 THEN <<"-">> \o Grouped(0 - n) ELSE Grouped(n))

\* the rows, their order and their column keys are those of the raw result
SameShape(out, data) ==
    /\ Len(out) = Len(data)
    /\ \A i \in DOMAIN data : DOMAIN out[i] = DOMAIN data[i]

\* C21 (as claimed): the formatted result has the raw result's rows, order and
\* keys; a cell of a currency-valued column holding a number (an int or any
\* float) becomes '$' and the value rounded to the nearest whole unit with
\* thousands separators; every other cell equals its raw value
C21_NumbersReformatted ==
    Returned("format_rows") =>
        LET data == fcall.args[1]
            sql == fcall.args[2]
            out == fret[1]
        IN  /\ SameShape(out, data)
            /\ \A i \in DOMAIN data : \A k \in DOMAIN data[i] :
                  IF CurrencyValued(k, sql) /\ data[i][k].t \in {"int", "float", "inf"}
                  THEN DollarsNearest(out[i][k], data[i][k])
                  ELSE out[i][k] = data[i][k]

\* C21 (amended): as above for a finite number; an infinite float, which
\* round() rejects, equals its raw value like every other cell
C21_FiniteNumbersReformatted ==
    Returned("format_rows") =>
        LET data == fcall.args[1]
            sql == fcall.args[2]
            out == fret[1]
        IN  /\ SameShape(out, data)
            /\ \A i \in DOMAIN data : \A k \in DOMAIN data[i] :
                  IF CurrencyValued(k, sql) /\ data[i][k].t \in {"int", "float"}
                  THEN DollarsNearest(out[i][k], data[i][k])
                  ELSE out[i][k] = data[i][k]

\* 1234567.8 in total_amount REAL of orders came back as $1,234,568 and the
\* quantity beside it as it was
C21_Witness ==
    /\ Returned("format_rows")
    /\ fcall.args[2] = SqlSelect
    /\ Len(fret[1]) = 2
    /\ fcall.args[1][1][W_total_amount] = FloatVal(12345678)
    /\ fret[1][1][W_total_amount] = StrVal(<<"$","1",",","2","3","4",",","5","6","8">>)
    /\ fret[1][1][W_quantity] = IntVal(3)
    /\ fret[1][2][W_quantity] = FloatVal(15)

----------------------------------------------------------------------------
(* Properties of the response envelope                                     *)

\* the values chartType may take
ChartTypeEnum ==
    { <<"k","p","i">>, <<"b","a","r">>, <<"p","i","e">>, <<"t","a","b","l","e">>,
      <<"n","o","n","e">> }

\* C25: every response handle_get_insight returns, be it a success, a blocked
\* or failure response, a cache hit or a descriptive answer, has a chartType
\* among kpi, bar, pie, table, none
C25_ChartTypeInEnum ==
    pc = "done" => response.chartType \in ChartTypeEnum

\* a data_query answered from the cache, whose chartType came from a model
\* reply outside the four labels
C25_Witness ==
    /\ pc = "done"
    /\ "cache_hit" \in calls
    /\ intent = "data_query"
    /\ response.chartType = <<"t","a","b","l","e">>

\* C23: the response to a request classified destructive_request has sql
\* "BLOCKED", no data, chartType "none" and the block message both as its
\* narrative and as its non-null error, whatever the question and whatever
\* the caches hold
C23_BlockedEnvelope ==
    (pc = "done" /\ intent = "destructive_request") =>
        /\ response.sql = BLOCKED
        /\ response.data = <<>>
        /\ response.chartType = C_none
        /\ response.error # Null
        /\ response.error = response.narrative
        /\ response.narrative = BlockedNarrative
        /\ response.query = question

\* a question whose answer is in the cache was classified destructive_request
\* and blocked
C23_Witness ==
    /\ pc = "done"
    /\ intent = "destructive_request"
    /\ question \in DOMAIN QUERY_CACHE
    /\ response.sql = BLOCKED

----------------------------------------------------------------------------
(* Properties of the caches over time                                      *)

\* C24: no step of the process removes a key from a cache: a question that
\* has an entry keeps one through every later request, be it a hit, a miss,
\* a failure or a blocked request
C24_NoEviction ==
    [][/\ DOMAIN DESCRIPTIVE_CACHE \subseteq DOMAIN DESCRIPTIVE_CACHE'
       /\ DOMAIN QUERY_CACHE \subseteq DOMAIN QUERY_CACHE']_vars

\* an entry written by the first request is there after a second request,
\* for another question, has ended
C24_Witness ==
    /\ served = 2
    /\ pc = "done"
    /\ \E q \in DOMAIN DESCRIPTIVE_CACHE : q # question

----------------------------------------------------------------------------
(* Properties of the execution of a data_query                             *)

\* C26 (as claimed): in a data_query request the text run against the
\* database is the text the Safety Gate inspected and approved, and it is run
\* exactly once: the column names come from that one run
C26_AuthorizedTextRunOnce ==
    (intent = "data_query" /\ "db" \in calls) =>
        /\ Len(executed) = 1
        /\ executed[1] = generated_sql
        /\ executed[1] \in authorized

\* C27 (as claimed): when the synthesized query ran without a database error
\* and returned rows, the table inference and the formatting loop complete
\* and leave one formatted row per raw row, whatever the query text; the
\* formatting step never turns the request into a failure
C27_FormattingCompletes ==
    (pc = "done" /\ intent = "data_query" /\ data_tuples # <<>>
        /\ "execution" \notin failures)
        => /\ "formatting" \notin failures
           /\ Len(result_data) = Len(data_tuples)

\* C28: a response carries data only when the request was classified
\* data_query, its query ran without a database error (in this request, or,
\* for an answer served from QUERY_CACHE, in the data_query request that
\* stored it) and error is null; every blocked, failure or descriptive
\* response has no data
C28_DataOnlyFromSuccessfulQuery ==
    pc = "done" =>
        /\ response.data # <<>> =>
              /\ intent = "data_query"
              /\ response.error = Null
              /\ "execution" \notin failures
              /\ \/ "db" \in calls /\ executed # <<>>
                 \/ /\ "cache_hit" \in calls
                    /\ <<"QUERY_CACHE", question>> \in DOMAIN storedUnder
                    /\ storedUnder[<<"QUERY_CACHE", question>>] = "data_query"
        /\ (response.error # Null \/ intent # "data_query") => response.data = <<>>

\* a data_query whose query returned rows was answered with them
C28_Witness ==
    /\ pc = "done"
    /\ intent = "data_query"
    /\ "db" \in calls
    /\ response.error = Null
    /\ Len(response.data) = Len(ResultRows)

====
